---- MODULE Spec2Model ----
(***************************************************************************)
(* Model of the MCP server's workflow engine (src/mcp-server):             *)
(*   tools.py         CircuitBreaker, ToolRegistry.execute                 *)
(*   orchestrator.py  WorkflowOrchestrator (sequential, parallel, dag)     *)
(*   main.py, utils.py, storage/  the context store and its two tiers      *)
(* Time is a discrete clock, handlers are an environment that answers each *)
(* invocation with a result, an exception or a timeout.                    *)
(***************************************************************************)
EXTENDS Integers, Sequences, FiniteSets, TLC

VARIABLES
    now,        \* time.time()
    states,     \* CircuitBreaker.states: tool name -> CircuitBreakerState
    task,       \* one entry per execute call in progress (a step or an API call)
    last_outcome, \* per task: what the handler's latest invocation answered
    started,    \* per task: how many execute calls were made for it
    wf,         \* the WorkflowSpec of the request (mode "none": no workflow)
    ctx_stored, \* whether the store holds the context of the request
    wf_pc,      \* position of execute_workflow
    i,          \* _execute_sequential: index of the loop
    results,    \* the mode's result list (dag: the results dict, by step)
    semaphore,  \* _execute_parallel: the semaphore's free slots
    in_degree, queue, current_batch, executed_count,  \* _execute_dag
    agent_logs, \* context.agent_logs of the in-memory context
    stored_logs, store_writes, \* what set_context wrote, and how often
    resp,       \* the WorkflowExecutionResponse returned
    redis,      \* the fast cache's entry for the context: value and expiry
    durable,    \* the durable tier's copy of the context (Firestore, ChromaDB)
    store_cfg,  \* which component serves the store calls, and its durable tier
    sreq        \* per client: the store call in progress and its outcome

vars == <<now, states, task, last_outcome, started, wf, ctx_stored, wf_pc, i, results,
          semaphore, in_degree, queue, current_batch, executed_count,
          agent_logs, stored_logs, store_writes, resp,
          redis, durable, store_cfg, sreq>>

storevars == <<redis, durable, store_cfg, sreq>>

wfvars == <<wf, ctx_stored, wf_pc, i, results, semaphore, in_degree, queue,
            current_batch, executed_count, agent_logs, stored_logs,
            store_writes, resp>>

-----------------------------------------------------------------------------
(* Bounds of the model *)
MaxRetries == 1
NumCallers == 1
TickSeconds == 30
MaxTime == 120
MaxSteps == 3
MaxConcurrent == 2
BaseMB == 1
ItemMB == 4
MaxLogs == 3

(* Program constants *)
threshold == 5
timeout == 60
max_size_mb == 10
DEFAULT_TTL == 3600
CONTEXT_CACHE_TTL == 86400

(* The registry: two registered tools, and a name nothing is registered under *)
RegisteredTools == {"t1", "t2"}
UnknownTool == "nope"
ToolNames == RegisteredTools \cup {UnknownTool}

\* t1 keeps the schema's default threshold, t2 is registered with a lower one
tools == [t \in RegisteredTools |->
            [max_retries |-> IF t = "t1" THEN MaxRetries ELSE 0,
             circuit_breaker_threshold |-> IF t = "t1" THEN threshold ELSE threshold - 3]]

get_tool(tool_name) == IF tool_name \in DOMAIN tools THEN tool_name ELSE "None"

-----------------------------------------------------------------------------
(* CircuitBreaker *)

CircuitBreakerState == [failure_count |-> 0, last_failure_time |-> 0, is_open |-> FALSE]

\* mutant: a success leaves the failure count as it is
record_success_keeps_count(st, tool_name) ==
    IF tool_name \in DOMAIN st
    THEN [st EXCEPT ![tool_name].is_open = FALSE]
    ELSE st

record_success(st, tool_name) ==
    IF tool_name \in DOMAIN st
    THEN [st EXCEPT ![tool_name].failure_count = 0, ![tool_name].is_open = FALSE]
    ELSE st

\* mutant: the breaker opens one failure late
opens_late(failure_count) == failure_count > threshold

opens(failure_count) == failure_count >= threshold

record_failure(st, tool_name, time) ==
    LET state == IF tool_name \in DOMAIN st THEN st[tool_name] ELSE CircuitBreakerState
        count == state.failure_count + 1
    IN  (tool_name :> [failure_count |-> count,
                       last_failure_time |-> time,
                       is_open |-> IF opens(count) THEN TRUE ELSE state.is_open])
        @@ st

cooled_down(state, time) ==
    state.last_failure_time # 0 /\ (time - state.last_failure_time) > timeout

\* mutant: the cooldown counts as elapsed when exactly timeout has passed
is_open_inclusive(st, tool_name, time) ==
    IF tool_name \notin DOMAIN st THEN FALSE
    ELSE IF ~st[tool_name].is_open THEN FALSE
    ELSE IF (time - st[tool_name].last_failure_time) >= timeout THEN FALSE
    ELSE TRUE

\* is_open's return value
is_open(st, tool_name, time) ==
    IF tool_name \notin DOMAIN st THEN FALSE
    ELSE IF ~st[tool_name].is_open THEN FALSE
    ELSE IF cooled_down(st[tool_name], time) THEN FALSE
    ELSE TRUE

\* mutant: the cooldown clears the flag and keeps the count
is_open_effect_keeps_count(st, tool_name, time) ==
    IF tool_name \in DOMAIN st /\ st[tool_name].is_open /\ cooled_down(st[tool_name], time)
    THEN [st EXCEPT ![tool_name].is_open = FALSE]
    ELSE st

\* is_open's effect on the breaker
is_open_effect(st, tool_name, time) ==
    IF tool_name \in DOMAIN st /\ st[tool_name].is_open /\ cooled_down(st[tool_name], time)
    THEN [st EXCEPT ![tool_name].is_open = FALSE, ![tool_name].failure_count = 0]
    ELSE st

-----------------------------------------------------------------------------
(* ToolRegistry.execute, cut at its suspension points: the call up to the   *)
(* first handler invocation, the end of a handler invocation, the end of a  *)
(* backoff sleep.                                                           *)

NoRet == [kind |-> "none", status |-> "", error |-> ""]
Response(status, error) == [kind |-> "response", status |-> status, error |-> error]
Raise(error) == [kind |-> "raise", status |-> "", error |-> error]

IdleTask == [pc |-> "idle", tool |-> "", attempt |-> 0, last_error |-> "",
             ret |-> NoRet, calls |-> 0]

Outcomes == {"ok", "timeout", "exception"}
ErrorOf(outcome) == IF outcome = "timeout" THEN "timed out" ELSE "handler failed"

execute_enter(st, tool_name, time) ==
    IF get_tool(tool_name) = "None"
    THEN [IdleTask EXCEPT !.pc = "done", !.tool = tool_name, !.ret = Raise("not found")]
    ELSE IF is_open(st, tool_name, time)
    THEN [IdleTask EXCEPT !.pc = "done", !.tool = tool_name, !.ret = Raise("circuit open")]
    ELSE [IdleTask EXCEPT !.pc = "handler", !.tool = tool_name, !.calls = 1]

execute_enter_states(st, tool_name, time) ==
    IF get_tool(tool_name) = "None" THEN st ELSE is_open_effect(st, tool_name, time)

\* mutant: one attempt too many
last_attempt_late(tk) == tk.attempt = tools[tk.tool].max_retries + 1

last_attempt(tk) == tk.attempt = tools[tk.tool].max_retries

next_last_error(tk, outcome) == ErrorOf(outcome)

handler_done(tk, outcome) ==
    IF outcome = "ok"
    THEN [tk EXCEPT !.pc = "done", !.ret = Response("success", "")]
    ELSE IF last_attempt(tk)
    THEN [tk EXCEPT !.pc = "done", !.last_error = next_last_error(tk, outcome),
                    !.ret = Response("error", next_last_error(tk, outcome))]
    ELSE [tk EXCEPT !.pc = "sleep", !.last_error = next_last_error(tk, outcome)]

handler_done_states(st, tk, outcome, time) ==
    IF outcome = "ok" THEN record_success(st, tk.tool)
    ELSE IF last_attempt(tk) THEN record_failure(st, tk.tool, time)
    ELSE st

sleep_done(tk) ==
    [tk EXCEPT !.pc = "handler", !.attempt = tk.attempt + 1, !.calls = tk.calls + 1]

-----------------------------------------------------------------------------
(* The context store: main.py's context endpoints over RedisClient and the  *)
(* optional FirestoreClient (utils.py), and storage/storage_manager.py over *)
(* RedisStorage and ChromaDBStorage. One context id is followed. Sizes are  *)
(* counted in MB.                                                           *)

Clients == {"a"}

\* the fields update_context appends to
ListFields == {"papers", "embeddings", "clusters", "citation_metrics", "agent_logs"}

Items == {"x", "y"}

None == [missing |-> TRUE]

EmptyLists == [f \in ListFields |-> <<>>]

\* ResearchContext(...) as create_context builds it
ResearchContext(time, ttl) ==
    [lists |-> EmptyLists, status |-> "active", last_updated |-> time, ttl_seconds |-> ttl]

total_items(ctx) ==
    Len(ctx.lists["papers"]) + Len(ctx.lists["embeddings"]) + Len(ctx.lists["clusters"])
        + Len(ctx.lists["citation_metrics"]) + Len(ctx.lists["agent_logs"])

calculate_context_size(ctx) == BaseMB + ItemMB * total_items(ctx)

validate_context_size(ctx) == calculate_context_size(ctx) <= max_size_mb

\* SET key value EX ttl
redis_set(ctx, ttl, time) == [ctx |-> ctx, expires_at |-> time + ttl]

\* GET key: the value, unless the key was never set or has expired
redis_get(entry, time) ==
    IF entry = None \/ time >= entry.expires_at THEN None ELSE entry.ctx

\* TTL key, as RedisStorage.update_context reads it
remaining_ttl(entry, time) ==
    IF entry.expires_at - time <= 0 THEN CONTEXT_CACHE_TTL ELSE entry.expires_at - time

\* an UpdateContextRequest: the list fields that are set, and status
NoUpdates == [lists |-> <<>>, status |-> "unset"]

UpdateRequests ==
    { [lists |-> ("papers" :> <<"x">>), status |-> "unset"],
      [lists |-> ("papers" :> <<"y", "x">>), status |-> "unset"],
      [lists |-> ("agent_logs" :> <<"y">>) @@ ("clusters" :> <<"x">>), status |-> "completed"],
      [lists |-> ("embeddings" :> <<"y">>) @@ ("citation_metrics" :> <<"x">>), status |-> "unset"],
      [lists |-> <<>>, status |-> "completed"] }

\* the updates dicts handed to StorageManager.update_context
SmUpdates ==
    { [lists |-> ("papers" :> <<"y", "x">>), status |-> "unset"],
      [lists |-> ("agent_logs" :> <<"y">>), status |-> "completed"] }

\* mutant: a list field of the request replaces the stored list
apply_updates_replace(ctx, updates) ==
    [ctx EXCEPT
        !.lists = [f \in ListFields |->
                      IF f \in DOMAIN updates.lists THEN updates.lists[f] ELSE @[f]],
        !.status = IF updates.status # "unset" THEN updates.status ELSE @]

\* update_context's loop over update_dict: list fields extend, others setattr
apply_updates(ctx, updates) ==
    [ctx EXCEPT
        !.lists = [f \in ListFields |->
                      IF f \in DOMAIN updates.lists THEN @[f] \o updates.lists[f] ELSE @[f]],
        !.status = IF updates.status # "unset" THEN updates.status ELSE @]

\* dict.update(updates) of RedisStorage and ChromaDBStorage: keys are replaced
dict_update(ctx, updates) ==
    [ctx EXCEPT
        !.lists = [f \in ListFields |->
                      IF f \in DOMAIN updates.lists THEN updates.lists[f] ELSE @[f]],
        !.status = IF updates.status # "unset" THEN updates.status ELSE @]

\* the orchestrator's context.agent_logs.append(agent_log)
append_log(ctx, time) ==
    [ctx EXCEPT !.lists["agent_logs"] = Append(@, "x"), !.last_updated = time]

IdleReq ==
    [op |-> "none", pc |-> "idle", local |-> None, updates |-> NoUpdates,
     fast |-> "none", durable |-> "none", status |-> "none", served_by |-> "none"]

\* what a tier answered to a write
Answer(ok) == IF ok THEN "ok" ELSE "rejected"

\* no store call is modelled
StoreUnused ==
    /\ redis = None
    /\ durable = None
    /\ store_cfg = [component |-> "none", durable_enabled |-> FALSE]
    /\ sreq = <<>>

-----------------------------------------------------------------------------
(* The execute_tool endpoint: API calls straight into the registry *)

NoWorkflow == [mode |-> "none", steps |-> <<>>, on_error |-> "stop", max_concurrent |-> 0]

InitReg ==
    /\ now = TickSeconds
    /\ states = <<>>
    /\ task = [c \in 1..NumCallers |-> IdleTask]
    /\ last_outcome = [c \in 1..NumCallers |-> "none"]
    /\ started = [c \in 1..NumCallers |-> 0]
    /\ wf = NoWorkflow
    /\ ctx_stored = TRUE
    /\ wf_pc = "idle"
    /\ i = 0
    /\ results = <<>>
    /\ semaphore = 0
    /\ in_degree = <<>>
    /\ queue = <<>>
    /\ current_batch = <<>>
    /\ executed_count = 0
    /\ agent_logs = <<>>
    /\ stored_logs = <<>>
    /\ store_writes = 0
    /\ resp = [status |-> "none"]
    /\ StoreUnused

ApiExecute(c, tool_name) ==
    /\ wf.mode = "none"
    /\ task[c].pc \in {"idle", "done"}
    /\ task' = [task EXCEPT ![c] = execute_enter(states, tool_name, now)]
    /\ states' = execute_enter_states(states, tool_name, now)
    /\ last_outcome' = [last_outcome EXCEPT ![c] = "none"]
    /\ started' = [started EXCEPT ![c] = 1]
    /\ UNCHANGED <<now, wfvars>>
    /\ UNCHANGED storevars

ApiHandlerDone(c, outcome) ==
    /\ wf.mode = "none"
    /\ task[c].pc = "handler"
    /\ task' = [task EXCEPT ![c] = handler_done(task[c], outcome)]
    /\ states' = handler_done_states(states, task[c], outcome, now)
    /\ last_outcome' = [last_outcome EXCEPT ![c] = outcome]
    /\ UNCHANGED <<now, started, wfvars>>
    /\ UNCHANGED storevars

ApiSleepDone(c) ==
    /\ wf.mode = "none"
    /\ task[c].pc = "sleep"
    /\ task' = [task EXCEPT ![c] = sleep_done(task[c])]
    /\ UNCHANGED <<now, states, last_outcome, started, wfvars>>
    /\ UNCHANGED storevars

Tick ==
    /\ now < MaxTime
    /\ now' = now + TickSeconds
    /\ UNCHANGED <<states, task, last_outcome, started, wfvars>>
    /\ UNCHANGED storevars

NextReg ==
    \/ \E c \in 1..NumCallers, t \in ToolNames : ApiExecute(c, t)
    \/ \E c \in 1..NumCallers, o \in Outcomes : ApiHandlerDone(c, o)
    \/ \E c \in 1..NumCallers : ApiSleepDone(c)
    \/ Tick

SpecReg == InitReg /\ [][NextReg]_vars

-----------------------------------------------------------------------------
(* WorkflowOrchestrator: what a step's execute call leaves in the results   *)
(* and in the context's log, and the response built from the results.       *)

NumStepsOf(w) == Len(w.steps)
N == NumStepsOf(wf)

\* the ToolExecutionResponse a step contributes: execute's own, or the one
\* the except branch builds from the exception
step_result(k, tk) ==
    IF tk.ret.kind = "raise"
    THEN [step |-> k, status |-> "error", error |-> tk.ret.error]
    ELSE [step |-> k, status |-> tk.ret.status, error |-> tk.ret.error]

\* the AgentLog is built and appended only when execute returned
logs_after(logs, k, tk) ==
    IF tk.ret.kind = "raise" THEN logs
    ELSE Append(logs, [step |-> k, status |-> tk.ret.status])

RECURSIVE count_status(_, _)
count_status(rs, status) ==
    IF rs = <<>> THEN 0
    ELSE (IF Head(rs).status = status THEN 1 ELSE 0) + count_status(Tail(rs), status)

\* mutant: partial is never reported
workflow_status_no_partial(steps_completed, steps_failed) ==
    IF steps_failed = 0 THEN "completed" ELSE "failed"

workflow_status(steps_completed, steps_failed) ==
    IF steps_failed = 0 THEN "completed"
    ELSE IF steps_completed > 0 THEN "partial" ELSE "failed"

response(rs) ==
    [status |-> workflow_status(count_status(rs, "success"), count_status(rs, "error")),
     steps_completed |-> count_status(rs, "success"),
     steps_total |-> N,
     steps_failed |-> count_status(rs, "error"),
     results |-> rs]

\* the response of the except branch of execute_workflow
failure_response ==
    [status |-> "failed", steps_completed |-> 0, steps_total |-> N,
     steps_failed |-> N, results |-> <<>>]

NoResponse == [status |-> "none"]

-----------------------------------------------------------------------------
(* _execute_dag: the dependency graph *)

step_ids == 1..N

RECURSIVE occurrences(_, _)
occurrences(deps, dep) ==
    IF deps = <<>> THEN 0
    ELSE (IF Head(deps) = dep THEN 1 ELSE 0) + occurrences(Tail(deps), dep)

RECURSIVE copies(_, _)
copies(k, n) == IF n = 0 THEN <<>> ELSE <<k>> \o copies(k, n - 1)

\* dependents[dep]: the steps naming dep, in step order, once per mention
RECURSIVE dependents_from(_, _)
dependents_from(dep, k) ==
    IF k > N THEN <<>>
    ELSE copies(k, occurrences(wf.steps[k].depends_on, dep)) \o dependents_from(dep, k + 1)

dependents(dep) == dependents_from(dep, 1)

initial_in_degree == [k \in step_ids |-> Len(wf.steps[k].depends_on)]

RECURSIVE zero_in_degree(_, _)
zero_in_degree(ind, k) ==
    IF k > N THEN <<>>
    ELSE (IF ind[k] = 0 THEN <<k>> ELSE <<>>) \o zero_in_degree(ind, k + 1)

\* mutant: a step is released while one dependency is still open
becomes_ready_early(degree) == degree <= 1

becomes_ready(degree) == degree = 0

\* mutant: the check for a starting step is missing
no_seed_unchecked(q) == FALSE

\* if not queue: no step to start from
no_seed(q) == q = <<>>

\* mutant: every step is launched, whatever the batch
in_batch_any(k, batch) == TRUE

\* batch_tasks: the steps of the current batch are the ones launched
in_batch(k, batch) == k \in {batch[j] : j \in DOMAIN batch}

\* the loop over dependents[step_id]: [in_degree, queue] afterwards
RECURSIVE release(_, _, _)
release(ds, ind, q) ==
    IF ds = <<>> THEN [in_degree |-> ind, queue |-> q]
    ELSE LET d == Head(ds)
             ind2 == [ind EXCEPT ![d] = @ - 1]
         IN  release(Tail(ds), ind2, IF becomes_ready(ind2[d]) THEN Append(q, d) ELSE q)

\* the loop over batch_results
RECURSIVE process_batch(_, _, _)
process_batch(batch, ind, q) ==
    IF batch = <<>> THEN [in_degree |-> ind, queue |-> q]
    ELSE LET r == release(dependents(Head(batch)), ind, q)
         IN  process_batch(Tail(batch), r.in_degree, r.queue)

Range(s) == {s[k] : k \in DOMAIN s}

\* results.get(step_i) for every i, the missing ones left out
RECURSIVE ordered_results(_, _)
ordered_results(res, k) ==
    IF k > N THEN <<>>
    ELSE (IF k \in DOMAIN res THEN <<res[k]>> ELSE <<>>) \o ordered_results(res, k + 1)

-----------------------------------------------------------------------------
(* The workflows submitted *)

StepTools == {"t1", UnknownTool}

ToolLists == UNION {[1..n -> StepTools] : n \in 0..MaxSteps}

Independent(ts) == [k \in DOMAIN ts |-> [tool |-> ts[k], depends_on |-> <<>>]]

\* dependency shapes, a step's depends_on naming steps by position
\* (0: a name no step has)
DagShapes ==
    { << <<>>, <<1>>, <<1>>, <<2, 3>> >>,     \* A -> {B, C} -> D
      << <<>>, <<>>, <<>> >>,                 \* one layer of three
      << <<>>, <<1, 1>> >>,                   \* a dependency named twice
      << <<>>, <<1>>, <<1, 2>> >>,            \* a dependency two layers up
      << <<2>>, <<1>> >>,                     \* no seed
      << <<>>, <<3>>, <<2>> >>,               \* a seed and a cycle
      << <<>>, <<0>> >>,                      \* an undeclared dependency
      << <<0>>, <<>> >>,                      \* the same, ahead of the seed
      << >> }

DagSteps(shape, first) ==
    [k \in DOMAIN shape |->
        [tool |-> IF k = 1 THEN first ELSE "t1", depends_on |-> shape[k]]]

Workflows ==
    {[mode |-> "sequential", steps |-> Independent(ts), on_error |-> e, max_concurrent |-> 1] :
        ts \in ToolLists, e \in {"stop", "continue", "retry"}}
    \cup
    {[mode |-> "parallel", steps |-> Independent(ts), on_error |-> e, max_concurrent |-> m] :
        ts \in ToolLists, e \in {"stop", "continue"}, m \in -1..MaxConcurrent}
    \cup
    {[mode |-> "dag", steps |-> DagSteps(sh, t), on_error |-> e, max_concurrent |-> 1] :
        sh \in DagShapes, t \in StepTools, e \in {"stop", "continue"}}
    \cup
    {[mode |-> "batch", steps |-> Independent(<<"t1">>), on_error |-> "stop", max_concurrent |-> 1]}

\* the breaker as earlier requests may have left it: untouched, or t1 one
\* failure short of opening
EarlierStates ==
    { <<>>,
      "t1" :> [failure_count |-> threshold - 1, last_failure_time |-> TickSeconds,
               is_open |-> FALSE] }

Init ==
    /\ now = TickSeconds
    /\ states \in EarlierStates
    /\ wf \in Workflows
    /\ ctx_stored \in BOOLEAN
    /\ task = [k \in 1..NumStepsOf(wf) |-> IdleTask]
    /\ last_outcome = [k \in 1..NumStepsOf(wf) |-> "none"]
    /\ started = [k \in 1..NumStepsOf(wf) |-> 0]
    /\ wf_pc = "called"
    /\ i = 0
    /\ results = <<>>
    /\ semaphore = 0
    /\ in_degree = <<>>
    /\ queue = <<>>
    /\ current_batch = <<>>
    /\ executed_count = 0
    /\ agent_logs = <<>>
    /\ stored_logs = <<>>
    /\ store_writes = 0
    /\ resp = NoResponse
    /\ StoreUnused

-----------------------------------------------------------------------------
(* execute_workflow *)

\* the response is returned: the normal end of execute_workflow
Return(rs) ==
    /\ wf_pc' = "returned"
    /\ resp' = response(rs)

\* an exception reached execute_workflow's except branch
Fail ==
    /\ wf_pc' = "returned"
    /\ resp' = failure_response

\* set_context(context_id, context)
Persist(logs) ==
    /\ stored_logs' = logs
    /\ store_writes' = store_writes + 1

\* the call up to its first suspension inside a step: mode dispatch, the
\* context lookup and, in dag mode, the dependency graph
WfStart ==
    /\ wf_pc = "called"
    /\ UNCHANGED <<now, states, task, last_outcome, started, wf, ctx_stored, results,
                   executed_count, agent_logs, stored_logs, store_writes>>
    /\ IF wf.mode \notin {"sequential", "parallel", "dag"} \/ ~ctx_stored
       THEN Fail /\ UNCHANGED <<i, semaphore, in_degree, queue, current_batch>>
       ELSE IF wf.mode = "sequential"
       THEN /\ i' = 1
            /\ IF N = 0 THEN Return(<<>>) ELSE wf_pc' = "running" /\ UNCHANGED resp
            /\ UNCHANGED <<semaphore, in_degree, queue, current_batch>>
       ELSE IF wf.mode = "parallel"
       THEN /\ IF wf.max_concurrent < 0
               THEN Fail /\ UNCHANGED semaphore
               ELSE semaphore' = wf.max_concurrent /\ wf_pc' = "running" /\ UNCHANGED resp
            /\ UNCHANGED <<i, in_degree, queue, current_batch>>
       ELSE /\ in_degree' = initial_in_degree
            /\ IF no_seed(zero_in_degree(initial_in_degree, 1))
               THEN Fail /\ UNCHANGED <<queue, current_batch>>
               ELSE /\ current_batch' = zero_in_degree(initial_in_degree, 1)
                    /\ queue' = <<>>
                    /\ wf_pc' = "running"
                    /\ UNCHANGED resp
            /\ UNCHANGED <<i, semaphore>>
    /\ UNCHANGED storevars

-----------------------------------------------------------------------------
(* _execute_sequential *)

\* mutant: only a timeout result stops the loop
seq_breaks_on_timeout(result, on_error) == result.status = "timeout" /\ on_error = "stop"

\* mutant: retry leaves the loop like stop
seq_breaks_on_retry(result, on_error) ==
    result.status = "error" /\ on_error \in {"stop", "retry"}

\* the loop leaves after this result
seq_breaks(result, on_error) == result.status = "error" /\ on_error = "stop"

\* from the end of step k's execute call to the next suspension
SeqAfter(k, tk) ==
    /\ results' = Append(results, step_result(k, tk))
    /\ agent_logs' = logs_after(agent_logs, k, tk)
    /\ IF tk.ret.kind = "raise"
       THEN UNCHANGED <<stored_logs, store_writes>>
       ELSE Persist(agent_logs')
    /\ IF seq_breaks(step_result(k, tk), wf.on_error) \/ k = N
       THEN Return(results') /\ UNCHANGED i
       ELSE i' = k + 1 /\ UNCHANGED <<wf_pc, resp>>

SeqStep ==
    /\ wf.mode = "sequential" /\ wf_pc = "running"
    /\ i \in step_ids /\ task[i].pc = "idle"
    /\ LET tk == execute_enter(states, wf.steps[i].tool, now) IN
        /\ task' = [task EXCEPT ![i] = tk]
        /\ states' = execute_enter_states(states, wf.steps[i].tool, now)
        /\ started' = [started EXCEPT ![i] = @ + 1]
        /\ IF tk.pc = "done" THEN SeqAfter(i, tk)
           ELSE UNCHANGED <<i, results, agent_logs, stored_logs, store_writes, wf_pc, resp>>
    /\ UNCHANGED <<now, last_outcome, wf, ctx_stored, semaphore, in_degree, queue,
                   current_batch, executed_count>>
    /\ UNCHANGED storevars

SeqHandlerDone(outcome) ==
    /\ wf.mode = "sequential" /\ wf_pc = "running"
    /\ i \in step_ids /\ task[i].pc = "handler"
    /\ LET tk == handler_done(task[i], outcome) IN
        /\ task' = [task EXCEPT ![i] = tk]
        /\ states' = handler_done_states(states, task[i], outcome, now)
        /\ last_outcome' = [last_outcome EXCEPT ![i] = outcome]
        /\ IF tk.pc = "done" THEN SeqAfter(i, tk)
           ELSE UNCHANGED <<i, results, agent_logs, stored_logs, store_writes, wf_pc, resp>>
    /\ UNCHANGED <<now, started, wf, ctx_stored, semaphore, in_degree, queue,
                   current_batch, executed_count>>
    /\ UNCHANGED storevars

SeqSleepDone ==
    /\ wf.mode = "sequential" /\ wf_pc = "running"
    /\ i \in step_ids /\ task[i].pc = "sleep"
    /\ task' = [task EXCEPT ![i] = sleep_done(task[i])]
    /\ UNCHANGED <<now, states, last_outcome, started, wfvars>>
    /\ UNCHANGED storevars

-----------------------------------------------------------------------------
(* _execute_parallel *)

\* mutant: the semaphore lets one task too many in
may_enter_off_by_one(free) == free >= 0

\* async with semaphore: a free slot lets the task in
may_enter(free) == free > 0

ParStepStart(k) ==
    /\ wf.mode = "parallel" /\ wf_pc = "running"
    /\ task[k].pc = "idle"
    /\ may_enter(semaphore)
    /\ LET tk == execute_enter(states, wf.steps[k].tool, now) IN
        /\ task' = [task EXCEPT ![k] = tk]
        /\ states' = execute_enter_states(states, wf.steps[k].tool, now)
        /\ started' = [started EXCEPT ![k] = @ + 1]
        /\ semaphore' = IF tk.pc = "done" THEN semaphore ELSE semaphore - 1
    /\ UNCHANGED <<now, last_outcome, wf, ctx_stored, wf_pc, i, results, in_degree,
                   queue, current_batch, executed_count, agent_logs, stored_logs,
                   store_writes, resp>>
    /\ UNCHANGED storevars

ParHandlerDone(k, outcome) ==
    /\ wf.mode = "parallel" /\ wf_pc = "running"
    /\ task[k].pc = "handler"
    /\ LET tk == handler_done(task[k], outcome) IN
        /\ task' = [task EXCEPT ![k] = tk]
        /\ states' = handler_done_states(states, task[k], outcome, now)
        /\ last_outcome' = [last_outcome EXCEPT ![k] = outcome]
        /\ IF tk.pc = "done"
           THEN agent_logs' = logs_after(agent_logs, k, tk) /\ semaphore' = semaphore + 1
           ELSE UNCHANGED <<agent_logs, semaphore>>
    /\ UNCHANGED <<now, started, wf, ctx_stored, wf_pc, i, results, in_degree, queue,
                   current_batch, executed_count, stored_logs, store_writes, resp>>
    /\ UNCHANGED storevars

ParSleepDone(k) ==
    /\ wf.mode = "parallel" /\ wf_pc = "running"
    /\ task[k].pc = "sleep"
    /\ task' = [task EXCEPT ![k] = sleep_done(task[k])]
    /\ UNCHANGED <<now, states, last_outcome, started, wfvars>>
    /\ UNCHANGED storevars

\* gather has every task's result: the results, one set_context, the response
ParFinish ==
    /\ wf.mode = "parallel" /\ wf_pc = "running"
    /\ \A k \in step_ids : task[k].pc = "done"
    /\ results' = [k \in step_ids |-> step_result(k, task[k])]
    /\ Persist(agent_logs)
    /\ Return(results')
    /\ UNCHANGED <<now, states, task, last_outcome, started, wf, ctx_stored, i, semaphore,
                   in_degree, queue, current_batch, executed_count, agent_logs>>
    /\ UNCHANGED storevars

-----------------------------------------------------------------------------
(* _execute_dag *)

DagStepStart(k) ==
    /\ wf.mode = "dag" /\ wf_pc = "running"
    /\ in_batch(k, current_batch)
    /\ task[k].pc = "idle"
    /\ task' = [task EXCEPT ![k] = execute_enter(states, wf.steps[k].tool, now)]
    /\ states' = execute_enter_states(states, wf.steps[k].tool, now)
    /\ started' = [started EXCEPT ![k] = @ + 1]
    /\ UNCHANGED <<now, last_outcome, wfvars>>
    /\ UNCHANGED storevars

DagHandlerDone(k, outcome) ==
    /\ wf.mode = "dag" /\ wf_pc = "running"
    /\ task[k].pc = "handler"
    /\ LET tk == handler_done(task[k], outcome) IN
        /\ task' = [task EXCEPT ![k] = tk]
        /\ states' = handler_done_states(states, task[k], outcome, now)
        /\ last_outcome' = [last_outcome EXCEPT ![k] = outcome]
        /\ agent_logs' = IF tk.pc = "done" THEN logs_after(agent_logs, k, tk) ELSE agent_logs
    /\ UNCHANGED <<now, started, wf, ctx_stored, wf_pc, i, results, semaphore, in_degree, queue,
                   current_batch, executed_count, stored_logs, store_writes, resp>>
    /\ UNCHANGED storevars

DagSleepDone(k) ==
    /\ wf.mode = "dag" /\ wf_pc = "running"
    /\ task[k].pc = "sleep"
    /\ task' = [task EXCEPT ![k] = sleep_done(task[k])]
    /\ UNCHANGED <<now, states, last_outcome, started, wfvars>>
    /\ UNCHANGED storevars

\* gather has the batch's results: they are recorded, the dependents
\* released, and either the next batch starts or the workflow ends
DagBatchDone ==
    /\ wf.mode = "dag" /\ wf_pc = "running"
    /\ \A k \in Range(current_batch) : task[k].pc = "done"
    /\ LET r == process_batch(current_batch, in_degree, <<>>) IN
        /\ results' = [k \in DOMAIN results \cup Range(current_batch) |->
                          IF k \in Range(current_batch) THEN step_result(k, task[k])
                          ELSE results[k]]
        /\ executed_count' = executed_count + Len(current_batch)
        /\ in_degree' = r.in_degree
        /\ IF r.queue = <<>>
           THEN /\ Persist(agent_logs)
                /\ Return(ordered_results(results', 1))
                /\ UNCHANGED <<queue, current_batch>>
           ELSE /\ current_batch' = r.queue
                /\ queue' = <<>>
                /\ UNCHANGED <<stored_logs, store_writes, wf_pc, resp>>
        /\ task' = [k \in step_ids |-> IF in_batch(k, r.queue) THEN IdleTask ELSE task[k]]
    /\ UNCHANGED <<now, states, last_outcome, started, wf, ctx_stored, i, semaphore,
                   agent_logs>>
    /\ UNCHANGED storevars

-----------------------------------------------------------------------------
Next ==
    \/ WfStart
    \/ SeqStep
    \/ \E o \in Outcomes : SeqHandlerDone(o)
    \/ SeqSleepDone
    \/ \E k \in step_ids : ParStepStart(k)
    \/ \E k \in step_ids, o \in Outcomes : ParHandlerDone(k, o)
    \/ \E k \in step_ids : ParSleepDone(k)
    \/ ParFinish
    \/ \E k \in step_ids : DagStepStart(k)
    \/ \E k \in step_ids, o \in Outcomes : DagHandlerDone(k, o)
    \/ \E k \in step_ids : DagSleepDone(k)
    \/ DagBatchDone

Spec == Init /\ [][Next]_vars

-----------------------------------------------------------------------------
(* The context store's calls *)

enginevars == <<states, task, last_outcome, started, wfvars>>

Ready(c) == sreq[c].pc \in {"idle", "done"}

Done(op, fast, dur, status, served_by) ==
    [op |-> op, pc |-> "done", local |-> None, updates |-> NoUpdates,
     fast |-> fast, durable |-> dur, status |-> status, served_by |-> served_by]

\* the ttl_seconds a CreateContextRequest carries
RequestTTLs == {TickSeconds, DEFAULT_TTL}

\* POST /context/create
create_context(c, ttl) ==
    /\ store_cfg.component = "api" /\ Ready(c)
    /\ redis = None /\ durable = None
    /\ LET context == ResearchContext(now, ttl) IN
        IF ~validate_context_size(context)
        THEN /\ sreq' = [sreq EXCEPT ![c] = Done("create", "none", "none", "too_large", "none")]
             /\ UNCHANGED <<redis, durable>>
        ELSE \E fast_ok, durable_ok \in BOOLEAN :
                IF ~fast_ok
                THEN /\ sreq' = [sreq EXCEPT ![c] =
                                    Done("create", "rejected", "none", "failed", "none")]
                     /\ UNCHANGED <<redis, durable>>
                ELSE /\ redis' = redis_set(context, context.ttl_seconds, now)
                     /\ durable' = IF store_cfg.durable_enabled /\ durable_ok
                                   THEN context ELSE durable
                     /\ sreq' = [sreq EXCEPT ![c] =
                                    Done("create", "ok",
                                         IF store_cfg.durable_enabled
                                         THEN Answer(durable_ok) ELSE "none",
                                         "ok", "none")]
    /\ UNCHANGED <<now, enginevars, store_cfg>>

\* GET /context/{context_id}
get_context(c) ==
    /\ store_cfg.component = "api" /\ Ready(c)
    /\ LET cached == redis_get(redis, now)
           loaded == IF store_cfg.durable_enabled THEN durable ELSE None
       IN  sreq' = [sreq EXCEPT ![c] =
                IF cached # None THEN Done("get", "none", "none", "ok", "redis")
                ELSE IF loaded # None THEN Done("get", "none", "none", "ok", "durable")
                ELSE Done("get", "none", "none", "not_found", "none")]
    /\ UNCHANGED <<now, enginevars, redis, durable, store_cfg>>

\* PATCH /context/{context_id}, up to the answer of redis_client.get_context
update_context_read(c, updates) ==
    /\ store_cfg.component = "api" /\ Ready(c)
    /\ LET context == redis_get(redis, now) IN
        sreq' = [sreq EXCEPT ![c] =
            IF context = None THEN Done("update", "none", "none", "not_found", "none")
            ELSE [IdleReq EXCEPT !.op = "update", !.pc = "read", !.local = context,
                                 !.updates = updates]]
    /\ UNCHANGED <<now, enginevars, redis, durable, store_cfg>>

\* PATCH /context/{context_id}, from there: the updates applied, the size
\* validated, the context stored back
update_context_write(c) ==
    /\ store_cfg.component = "api"
    /\ sreq[c].op = "update" /\ sreq[c].pc = "read"
    /\ LET context == [apply_updates(sreq[c].local, sreq[c].updates)
                           EXCEPT !.last_updated = now] IN
        IF ~validate_context_size(context)
        THEN /\ sreq' = [sreq EXCEPT ![c] = Done("update", "none", "none", "too_large", "none")]
             /\ UNCHANGED <<redis, durable>>
        ELSE \E fast_ok, durable_ok \in BOOLEAN :
                IF ~fast_ok
                THEN /\ sreq' = [sreq EXCEPT ![c] =
                                    Done("update", "rejected", "none", "failed", "none")]
                     /\ UNCHANGED <<redis, durable>>
                ELSE /\ redis' = redis_set(context, context.ttl_seconds, now)
                     /\ durable' = IF store_cfg.durable_enabled /\ durable_ok
                                   THEN context ELSE durable
                     /\ sreq' = [sreq EXCEPT ![c] =
                                    Done("update", "ok",
                                         IF store_cfg.durable_enabled
                                         THEN Answer(durable_ok) ELSE "none",
                                         "ok", "none")]
    /\ UNCHANGED <<now, enginevars, store_cfg>>

\* a workflow run on the context, up to the answer of get_context
workflow_get_context(c) ==
    /\ store_cfg.component = "api" /\ Ready(c)
    /\ LET context == redis_get(redis, now) IN
        sreq' = [sreq EXCEPT ![c] =
            IF context = None THEN Done("workflow", "none", "none", "failed", "none")
            ELSE [IdleReq EXCEPT !.op = "workflow", !.pc = "read", !.local = context]]
    /\ UNCHANGED <<now, enginevars, redis, durable, store_cfg>>

\* the workflow's step has returned: its log is appended and the context
\* handed to set_context, whose answer is not looked at
workflow_set_context(c) ==
    /\ store_cfg.component = "api"
    /\ sreq[c].op = "workflow" /\ sreq[c].pc = "read"
    /\ Len(sreq[c].local.lists["agent_logs"]) < MaxLogs
    /\ LET context == append_log(sreq[c].local, now) IN
        \E fast_ok \in BOOLEAN :
            /\ redis' = IF fast_ok THEN redis_set(context, context.ttl_seconds, now) ELSE redis
            /\ sreq' = [sreq EXCEPT ![c] =
                            Done("workflow", Answer(fast_ok), "none", "ok", "none")]
    /\ UNCHANGED <<now, enginevars, durable, store_cfg>>

\* StorageManager.get_context's restore: redis.set_context(context_id, context)
restore(entry, context, fast_ok, time) ==
    IF fast_ok THEN redis_set(context, CONTEXT_CACHE_TTL, time) ELSE entry

\* StorageManager.get_context
sm_get_context(c) ==
    /\ store_cfg.component = "manager" /\ Ready(c)
    /\ LET cached == redis_get(redis, now) IN
        IF cached # None
        THEN /\ sreq' = [sreq EXCEPT ![c] = Done("get", "none", "none", "ok", "redis")]
             /\ UNCHANGED redis
        ELSE IF durable # None
        THEN \E fast_ok \in BOOLEAN :
                /\ redis' = restore(redis, durable, fast_ok, now)
                /\ sreq' = [sreq EXCEPT ![c] =
                                Done("get", Answer(fast_ok), "none", "ok", "durable")]
        ELSE /\ sreq' = [sreq EXCEPT ![c] = Done("get", "none", "none", "not_found", "none")]
             /\ UNCHANGED redis
    /\ UNCHANGED <<now, enginevars, durable, store_cfg>>

\* StorageManager.create_context: success stays True only if no tier failed
create_success(fast_ok, durable_ok) == fast_ok /\ durable_ok

\* StorageManager.update_context: redis_success or chroma_success
update_success(redis_success, chroma_success) == redis_success \/ chroma_success

\* StorageManager.create_context
sm_create_context(c) ==
    /\ store_cfg.component = "manager" /\ Ready(c)
    /\ LET context == ResearchContext(now, CONTEXT_CACHE_TTL) IN
        \E fast_ok, durable_ok \in BOOLEAN :
            /\ redis' = IF fast_ok THEN redis_set(context, CONTEXT_CACHE_TTL, now) ELSE redis
            /\ durable' = IF durable_ok THEN context ELSE durable
            /\ sreq' = [sreq EXCEPT ![c] =
                            Done("create", Answer(fast_ok), Answer(durable_ok),
                                 IF create_success(fast_ok, durable_ok) THEN "ok" ELSE "failed",
                                 "none")]
    /\ UNCHANGED <<now, enginevars, store_cfg>>

\* StorageManager.update_context: each tier merges the updates into its own
\* copy, if it has one
sm_update_context(c, updates) ==
    /\ store_cfg.component = "manager" /\ Ready(c)
    /\ LET cached == redis_get(redis, now) IN
        \E fast_ok, durable_ok \in BOOLEAN :
            LET redis_success == cached # None /\ fast_ok
                chroma_success == durable # None /\ durable_ok
            IN  /\ redis' = IF redis_success
                            THEN redis_set(dict_update(cached, updates),
                                           remaining_ttl(redis, now), now)
                            ELSE redis
                /\ durable' = IF chroma_success THEN dict_update(durable, updates) ELSE durable
                /\ sreq' = [sreq EXCEPT ![c] =
                                Done("update", Answer(redis_success), Answer(chroma_success),
                                     IF update_success(redis_success, chroma_success)
                                     THEN "ok" ELSE "failed", "none")]
    /\ UNCHANGED <<now, enginevars, store_cfg>>

\* time passes
TimePasses ==
    /\ now < MaxTime
    /\ now' = now + TickSeconds
    /\ UNCHANGED <<enginevars, storevars>>

StoreConfigs ==
    {[component |-> "api", durable_enabled |-> e] : e \in BOOLEAN}
    \cup {[component |-> "manager", durable_enabled |-> TRUE]}

InitStore ==
    /\ now = TickSeconds
    /\ states = <<>>
    /\ task = <<>>
    /\ last_outcome = <<>>
    /\ started = <<>>
    /\ wf = NoWorkflow
    /\ ctx_stored = FALSE
    /\ wf_pc = "idle"
    /\ i = 0
    /\ results = <<>>
    /\ semaphore = 0
    /\ in_degree = <<>>
    /\ queue = <<>>
    /\ current_batch = <<>>
    /\ executed_count = 0
    /\ agent_logs = <<>>
    /\ stored_logs = <<>>
    /\ store_writes = 0
    /\ resp = NoResponse
    /\ redis = None
    /\ durable = None
    /\ store_cfg \in StoreConfigs
    /\ sreq = [c \in Clients |-> IdleReq]

NextStore ==
    \/ \E c \in Clients, ttl \in RequestTTLs : create_context(c, ttl)
    \/ \E c \in Clients : get_context(c)
    \/ \E c \in Clients, u \in UpdateRequests : update_context_read(c, u)
    \/ \E c \in Clients : update_context_write(c)
    \/ \E c \in Clients : workflow_get_context(c)
    \/ \E c \in Clients : workflow_set_context(c)
    \/ \E c \in Clients : sm_get_context(c)
    \/ \E c \in Clients : sm_create_context(c)
    \/ \E c \in Clients, u \in SmUpdates : sm_update_context(c, u)
    \/ TimePasses

SpecStore == InitStore /\ [][NextStore]_vars

-----------------------------------------------------------------------------
(* Two requests on one context at the same time: every await of a handler   *)
(* is a point where the other request's handler may run.                    *)

Racers == {"a", "b"}

\* the UpdateContextRequests the two requests carry
RaceUpdates ==
    { [lists |-> ("papers" :> <<"x">>), status |-> "unset"],
      [lists |-> ("agent_logs" :> <<"y">>), status |-> "completed"] }

InitRace ==
    /\ now = TickSeconds
    /\ states = <<>>
    /\ task = <<>>
    /\ last_outcome = <<>>
    /\ started = <<>>
    /\ wf = NoWorkflow
    /\ ctx_stored = FALSE
    /\ wf_pc = "idle"
    /\ i = 0
    /\ results = <<>>
    /\ semaphore = 0
    /\ in_degree = <<>>
    /\ queue = <<>>
    /\ current_batch = <<>>
    /\ executed_count = 0
    /\ agent_logs = <<>>
    /\ stored_logs = <<>>
    /\ store_writes = 0
    /\ resp = NoResponse
    /\ redis = None
    /\ durable = None
    /\ store_cfg \in {cfg \in StoreConfigs : cfg.component = "api"}
    /\ sreq = [c \in Racers |-> IdleReq]

NextRace ==
    \/ \E c \in Racers : create_context(c, DEFAULT_TTL)
    \/ \E c \in Racers, u \in RaceUpdates : update_context_read(c, u)
    \/ \E c \in Racers : update_context_write(c)
    \/ \E c \in Racers : workflow_get_context(c)
    \/ \E c \in Racers : workflow_set_context(c)

SpecRace == InitRace /\ [][NextRace]_vars

-----------------------------------------------------------------------------
(* Properties *)

Succeeded(k) == task[k].pc = "done" /\ step_result(k, task[k]).status = "success"
Errored(k) == task[k].pc = "done" /\ step_result(k, task[k]).status = "error"
NeverInvoked(k) == task[k].pc = "idle" /\ started[k] = 0 /\ task[k].calls = 0
InFlight == {k \in DOMAIN task : task[k].pc \in {"handler", "sleep"}}
DependsOn(k) == Range(wf.steps[k].depends_on)

\* the breaker of a tool is open and its cooldown has not elapsed, read off
\* the breaker's fields
OpenNow(t) ==
    /\ t \in DOMAIN states
    /\ states[t].is_open
    /\ ~(now - states[t].last_failure_time > timeout)

\* C1: sequential, on_error = stop: once a step has an error result, no later
\* step is ever invoked, and the response counts the successes before the
\* failing step and one failure, partial if a step succeeded, else failed.
C1_StopHalts ==
    (wf.mode = "sequential" /\ wf.on_error = "stop") =>
        \A k \in step_ids : Errored(k) =>
            /\ \A j \in step_ids : j > k => NeverInvoked(j)
            /\ wf_pc = "returned"
            /\ resp.steps_completed = Cardinality({j \in 1..(k - 1) : Succeeded(j)})
            /\ resp.steps_completed = k - 1
            /\ resp.steps_failed = 1
            /\ resp.status = IF k > 1 THEN "partial" ELSE "failed"

C1_Witness ==
    /\ wf.mode = "sequential" /\ wf.on_error = "stop" /\ N = 3
    /\ Succeeded(1) /\ Errored(2) /\ NeverInvoked(3)
    /\ resp.status = "partial" /\ resp.steps_completed = 1 /\ resp.steps_failed = 1

\* C2: dag: a step's execute call is made only once every step it depends on
\* has completed, and at most one execute call is made per step.
C2_DagOrder ==
    wf.mode = "dag" =>
        \A s \in step_ids :
            /\ started[s] <= 1
            /\ started[s] > 0 =>
                  \A d \in DependsOn(s) : d \in step_ids /\ task[d].pc = "done"

C2_Witness ==
    /\ wf.mode = "dag" /\ N = 4
    /\ DependsOn(4) = {2, 3}
    /\ task[4].pc = "handler" /\ task[2].pc = "done" /\ task[3].pc = "done"

\* a call of execute has just ended with every attempt failed
Exhausted(c) ==
    /\ task[c].pc = "handler"
    /\ task'[c].pc = "done" /\ task'[c].ret = Response("error", task'[c].last_error)

\* a call of execute has just been made
Entered(c) == task[c].pc \in {"idle", "done"} /\ task'[c] # task[c]

FailureCount(st, t) == IF t \in DOMAIN st THEN st[t].failure_count ELSE 0

\* C3 as stated: every execute call that fails on all its max_retries+1
\* attempts leaves the tool's breaker open.
C3_OpenAfterExhausted ==
    [][\A c \in DOMAIN task : Exhausted(c) => OpenNow(task[c].tool)']_vars

\* C3 as amended: an execute call that fails on all its attempts adds one to
\* the tool's failure count, and the breaker is open afterwards exactly when
\* the count has reached the threshold; a call made while it is open (cooldown
\* not elapsed) is rejected without invoking the handler.
C3_OpenAtThreshold ==
    [][\A c \in DOMAIN task :
          /\ Exhausted(c) =>
                /\ FailureCount(states', task[c].tool) = FailureCount(states, task[c].tool) + 1
                /\ states'[task[c].tool].last_failure_time = now
                /\ OpenNow(task[c].tool)' <=> FailureCount(states', task[c].tool) >= threshold
          /\ (Entered(c) /\ OpenNow(task'[c].tool)) =>
                task'[c].ret.kind = "raise" /\ task'[c].calls = 0
      ]_vars

C3_Witness ==
    \E c \in DOMAIN task :
        /\ task[c].ret = Raise("circuit open")
        /\ OpenNow(task[c].tool)
        /\ states[task[c].tool].failure_count = threshold

\* C4: an execute call made while the tool's breaker is open (cooldown not
\* elapsed) fails at once with the circuit-open error: no handler invocation,
\* failure count and last-failure time unchanged.
C4_OpenRejects ==
    [][\A c \in DOMAIN task :
          (Entered(c) /\ OpenNow(task'[c].tool)) =>
              /\ task'[c].pc = "done"
              /\ task'[c].ret = Raise("circuit open")
              /\ task'[c].calls = 0
              /\ states' = states
      ]_vars

C4_Witness ==
    \E c \in DOMAIN task :
        /\ task[c].pc = "done" /\ task[c].ret = Raise("circuit open")
        /\ task[c].calls = 0
        /\ OpenNow(task[c].tool)

\* C5: an execute call on a registered tool that passed the breaker check
\* invokes the handler at most max_retries+1 times and ends at the first
\* success; when every attempt fails it records exactly one breaker failure
\* and returns (not raises) an error response with the last attempt's error.
C5_Passed(c) == task[c].pc \in {"handler", "sleep"}

\* the handler's invocation has just ended
Answered(c) == task[c].pc = "handler" /\ task'[c].pc # "handler"

C5_RetryBudget ==
    [][\A c \in DOMAIN task :
          C5_Passed(c) =>
              /\ task[c].tool \in RegisteredTools
              /\ task'[c].calls <= tools[task[c].tool].max_retries + 1
              /\ task'[c].ret.kind # "raise"
              /\ (Answered(c) /\ last_outcome'[c] = "ok") =>
                    task'[c].pc = "done" /\ task'[c].ret = Response("success", "")
              /\ (Answered(c) /\ last_outcome'[c] # "ok" /\ task'[c].pc # "done") =>
                    /\ states' = states
                    /\ task[c].calls < tools[task[c].tool].max_retries + 1
              /\ (Answered(c) /\ last_outcome'[c] # "ok" /\ task'[c].pc = "done") =>
                    /\ task[c].calls = tools[task[c].tool].max_retries + 1
                    /\ task'[c].ret = Response("error", ErrorOf(last_outcome'[c]))
                    /\ FailureCount(states', task[c].tool) = FailureCount(states, task[c].tool) + 1
      ]_vars

C5_Witness ==
    \E c \in DOMAIN task :
        /\ task[c].tool = "t1" /\ task[c].pc = "done"
        /\ task[c].calls = MaxRetries + 1
        /\ task[c].ret = Response("error", "timed out")
        /\ states["t1"].failure_count = 1

\* C6: every execute_workflow call ends with a response that carries a
\* status, as long as handler invocations end: a call that has not returned
\* can always take a further step.
C6_AlwaysResponds ==
    /\ wf_pc = "returned" => resp.status \in {"completed", "partial", "failed"}
    /\ wf_pc # "returned" => ENABLED Next

\* the workflow fails as a whole, before any step: unknown mode, context not
\* found, a semaphore that cannot be built, no step without dependencies
Rejected ==
    \/ wf.mode \notin {"sequential", "parallel", "dag"}
    \/ ~ctx_stored
    \/ wf.mode = "parallel" /\ wf.max_concurrent < 0
    \/ wf.mode = "dag" /\ \A k \in step_ids : wf.steps[k].depends_on # <<>>

NumSucceeded == Cardinality({k \in step_ids : Succeeded(k)})
NumErrored == Cardinality({k \in step_ids : Errored(k)})

DerivedFromSteps ==
    /\ resp.steps_completed = NumSucceeded
    /\ resp.steps_failed = NumErrored
    /\ resp.status = IF NumErrored = 0 THEN "completed"
                     ELSE IF NumSucceeded > 0 THEN "partial" ELSE "failed"

\* C7 as stated: the response's status and counts are derived from the
\* per-step results: completed when no step failed, partial when some
\* succeeded and some failed, failed when none succeeded; steps_completed and
\* steps_failed count the success and the error results.
C7_StatusFromResults == wf_pc = "returned" => DerivedFromSteps

\* C7 as amended: that derivation holds when the mode's execution returns its
\* results (with no result at all the status is completed); a workflow that
\* fails as a whole answers failed, steps_completed 0, steps_failed equal to
\* steps_total, and no results.
C7_StatusFromResultsUnlessRejected ==
    wf_pc = "returned" =>
        IF Rejected
        THEN /\ resp.status = "failed" /\ resp.steps_completed = 0
             /\ resp.steps_failed = N /\ resp.steps_total = N /\ resp.results = <<>>
        ELSE /\ DerivedFromSteps
             /\ Len(resp.results) = NumSucceeded + NumErrored

C7_Witness ==
    /\ wf.mode = "parallel" /\ wf_pc = "returned" /\ N = 3
    /\ NumSucceeded = 1 /\ NumErrored = 2
    /\ resp.status = "partial" /\ resp.steps_completed = 1 /\ resp.steps_failed = 2

\* C8: parallel mode: while the workflow runs, at most max_concurrent tool
\* executions are in flight.
C8_ParallelBound ==
    (wf.mode = "parallel" /\ wf_pc = "running") =>
        Cardinality(InFlight) <= wf.max_concurrent

C8_Witness ==
    /\ wf.mode = "parallel" /\ wf_pc = "running"
    /\ N > wf.max_concurrent /\ wf.max_concurrent = 2
    /\ Cardinality(InFlight) = 2
    /\ \E k \in step_ids : task[k].pc = "idle"

C10_NoSeedRejected ==
    (wf.mode = "dag" /\ \A k \in step_ids : wf.steps[k].depends_on # <<>>) =>
        /\ \A k \in step_ids : NeverInvoked(k)
        /\ wf_pc # "running"
        /\ store_writes = 0 /\ stored_logs = <<>> /\ agent_logs = <<>>
        /\ wf_pc = "returned" => resp.status = "failed"

C10_Witness ==
    /\ wf.mode = "dag" /\ N = 2 /\ ctx_stored
    /\ \A k \in step_ids : wf.steps[k].depends_on # <<>>
    /\ wf_pc = "returned" /\ resp.status = "failed"

\* the steps reached by following depends_on from the steps of S, n times
RECURSIVE Ancestors(_, _)
Ancestors(S, n) ==
    IF n = 0 THEN S
    ELSE Ancestors(S \cup UNION {DependsOn(j) \cap step_ids : j \in S}, n - 1)

OnCycle(k) == k \in Ancestors(DependsOn(k) \cap step_ids, N)
Undeclared(k) == \E d \in DependsOn(k) : d \notin step_ids
Malformed == \E k \in step_ids : OnCycle(k) \/ Undeclared(k)

\* C11: a dag workflow with a cycle among some of its steps, or with a
\* depends_on naming a step that is not declared, is rejected before any side
\* effect: no execute call, no write of the context, and the response is
\* failed, even when other steps have no dependencies.
C11_MalformedDagRejected ==
    (wf.mode = "dag" /\ Malformed) =>
        /\ \A k \in step_ids : NeverInvoked(k)
        /\ store_writes = 0
        /\ wf_pc = "returned" => resp.status = "failed"

\* C12: parallel and dag mode, on_error = stop: once a step has ended with an
\* error, no step that has not started is launched (no further execute call
\* begins); in dag mode the dependents of a failed step are not launched.
C12_StopLaunchesNothing ==
    [][(wf.mode \in {"parallel", "dag"} /\ wf.on_error = "stop"
            /\ \E j \in step_ids : Errored(j))
          => \A k \in step_ids : started'[k] = started[k]
      ]_vars

Logged(logs, j) == \E n \in DOMAIN logs : logs[n].step = j
InStepOrder(logs) == \A m, n \in DOMAIN logs : m < n => logs[m].step < logs[n].step

\* C13: sequential mode: steps are invoked in listed order, and when the tool
\* of a step is invoked every earlier step has ended, has its log entry in
\* the context and the context with that entry has been written to the store;
\* the stored agent_logs list the steps in step order.
C13_LoggedBeforeNext ==
    [][wf.mode = "sequential" =>
          /\ InStepOrder(stored_logs)
          /\ \A k \in step_ids : started'[k] # started[k] =>
                /\ \A j \in step_ids : j > k => NeverInvoked(j)
                /\ \A j \in 1..(k - 1) :
                      /\ task[j].pc = "done" /\ started[j] = 1
                      /\ Logged(agent_logs, j) /\ Logged(stored_logs, j)
      ]_vars

LoggedOnce(logs, j) == Cardinality({n \in DOMAIN logs : logs[n].step = j}) = 1

\* C14: parallel mode: the context is written to the store once per run (a
\* run that got to its steps and returned has written it exactly once), only
\* after every step has finished, and the write holds exactly one log entry
\* for every step of the workflow, whatever the completion order.
C14_ParallelSingleWrite ==
    wf.mode = "parallel" =>
        /\ store_writes <= 1
        /\ (wf_pc = "returned" /\ ~Rejected) => store_writes = 1
        /\ store_writes = 1 =>
              /\ \A k \in step_ids : task[k].pc = "done"
              /\ Len(stored_logs) = N
              /\ \A k \in step_ids : LoggedOnce(stored_logs, k)

\* C15: in all three modes, when a workflow has returned its per-step results,
\* the stored context has gained exactly one log entry per result, and the
\* entry of a step carries the status of that step's result (tool not found,
\* breaker open and timeout included).
C15_OneLogPerResult ==
    (wf_pc = "returned" /\ ~Rejected) =>
        /\ Len(stored_logs) = Len(resp.results)
        /\ \A n \in DOMAIN resp.results :
              \E m \in DOMAIN stored_logs :
                  /\ stored_logs[m].step = resp.results[n].step
                  /\ stored_logs[m].status = resp.results[n].status
                  /\ LoggedOnce(stored_logs, resp.results[n].step)

\* C16: sequential mode, on_error = continue or retry: every step gets one
\* execute call, in listed order, whatever the earlier steps returned; what
\* follows the end of a step (its result appended, the next step or the
\* response over all N results) is the same under both policies.
C16_ContinueLikeRetry ==
    [][(wf.mode = "sequential" /\ wf.on_error \in {"continue", "retry"}) =>
          /\ \A k \in step_ids : started'[k] # started[k] =>
                /\ started[k] = 0 /\ started'[k] = 1
                /\ \A j \in 1..(k - 1) : started[j] = 1 /\ task[j].pc = "done"
                /\ \A j \in step_ids : j > k => NeverInvoked(j)
          /\ \A k \in step_ids : (task[k].pc # "done" /\ task'[k].pc = "done") =>
                /\ results' = Append(results, step_result(k, task'[k]))
                /\ IF k < N
                   THEN wf_pc' = "running" /\ i' = k + 1
                   ELSE /\ wf_pc' = "returned"
                        /\ resp' = response(results')
                        /\ Len(resp'.results) = N
                        /\ \A j \in step_ids : started'[j] = 1
      ]_vars

C16_Witness ==
    /\ wf.mode = "sequential" /\ wf.on_error = "retry" /\ N = 3
    /\ Errored(1) /\ Succeeded(2) /\ Errored(3)
    /\ \A k \in step_ids : started[k] = 1
    /\ wf_pc = "returned" /\ resp.status = "partial"
    /\ resp.steps_completed = 1 /\ resp.steps_failed = 2

\* the update of client c is stored and answered in this step
UpdateStored(c) ==
    /\ sreq[c].op = "update" /\ sreq[c].pc = "read"
    /\ sreq'[c].pc = "done" /\ sreq'[c].status = "ok"

\* C17: UpdateContext on an existing context works on the stored context as
\* read, and when it succeeds every list field named in the request is stored
\* as the list before followed by the supplied items (so its length grows by
\* the number of items supplied), every other list field is stored unchanged,
\* and last_updated is set to the time of the update.
C17_UpdateAppends ==
    [][\A c \in Clients :
          /\ (store_cfg.component = "api" /\ sreq'[c].op = "update" /\ sreq'[c].pc = "read")
                => sreq'[c].local = redis.ctx
          /\ (store_cfg.component = "api" /\ UpdateStored(c)) =>
                LET before == sreq[c].local
                    delta == sreq[c].updates.lists
                    after == redis'.ctx
                IN  /\ \A f \in ListFields \cap DOMAIN delta :
                          /\ after.lists[f] = before.lists[f] \o delta[f]
                          /\ Len(after.lists[f]) = Len(before.lists[f]) + Len(delta[f])
                    /\ \A f \in ListFields \ DOMAIN delta :
                          after.lists[f] = before.lists[f]
                    /\ after.last_updated = now
                    /\ after.last_updated >= before.last_updated
      ]_vars

C17_Witness ==
    /\ store_cfg.component = "api"
    /\ \E c \in Clients : sreq[c].op = "update" /\ sreq[c].status = "ok"
    /\ redis # None
    /\ redis.ctx.lists["papers"] = <<"x", "x">>
    /\ redis.ctx.last_updated > TickSeconds

\* C18: no context whose serialized size exceeds the configured maximum is
\* ever held by a store tier, whichever call wrote it (create_context,
\* update_context, or a workflow persisting its log entries), and a call that
\* was refused for the size has left both tiers as they were.
C18_NoOversizeWrite ==
    [][/\ redis' # None => validate_context_size(redis'.ctx)
       /\ durable' # None => validate_context_size(durable')
       /\ \A c \in Clients :
             (sreq'[c] # sreq[c] /\ sreq'[c].status = "too_large") =>
                 redis' = redis /\ durable' = durable
      ]_vars

\* the read of client c is answered in this step from the durable tier
ReadFromDurable(c) ==
    /\ sreq'[c] # sreq[c]
    /\ sreq'[c].op = "get" /\ sreq'[c].served_by = "durable"

\* C19: a context read that misses the fast cache and is answered from the
\* durable tier has written the context back to the fast cache when it
\* returns, so that a read at that moment is served by the cache (unless the
\* cache refused the write).
C19_ReadRepair ==
    [][\A c \in Clients : ReadFromDurable(c) =>
          /\ redis_get(redis, now) = None
          /\ \/ redis_get(redis', now) = durable
             \/ sreq'[c].fast = "rejected"
      ]_vars

\* a create or update of client c is answered in this step, after it got to
\* writing (it was not refused as not found or too large)
WriteAnswered(c) ==
    /\ sreq'[c] # sreq[c]
    /\ sreq'[c].op \in {"create", "update"}
    /\ sreq'[c].status \in {"ok", "failed"}

\* C20: with a durable tier configured, a context write (create or update) is
\* handed to both tiers and is answered as successful whenever at least one
\* tier accepted it, and as failed only when both refused it.
C20_WriteBothTiers ==
    [][\A c \in Clients : (WriteAnswered(c) /\ store_cfg.durable_enabled) =>
          /\ sreq'[c].fast # "none" /\ sreq'[c].durable # "none"
          /\ sreq'[c].status = "ok" <=> (sreq'[c].fast = "ok" \/ sreq'[c].durable = "ok")
      ]_vars

\* the workflow of client c has appended its log entry and handed the
\* context to the store in this step
WorkflowPersisted(c) ==
    /\ sreq[c].op = "workflow" /\ sreq[c].pc = "read"
    /\ sreq'[c].pc = "done" /\ sreq'[c].status = "ok"

\* C21: with a durable tier configured, the log entries a workflow appends
\* are written to the durable tier as well as to the cache (unless the
\* durable tier refused the write), so that they outlive the cache entry's
\* TTL: the durable copy holds the workflow's log entries.
C21_WorkflowLogsDurable ==
    [][\A c \in Clients :
          (store_cfg.component = "api" /\ store_cfg.durable_enabled /\ WorkflowPersisted(c)) =>
              \/ sreq'[c].durable = "rejected"
              \/ /\ durable' # None
                 /\ durable'.lists["agent_logs"] =
                        append_log(sreq[c].local, now).lists["agent_logs"]
      ]_vars

\* C22: dag mode: the response lists the per-step results in declaration
\* order, whatever layer a step ran in: the i-th result is the result of the
\* i-th declared step.
C22_DagDeclarationOrder ==
    (wf.mode = "dag" /\ wf_pc = "returned" /\ ~Rejected) =>
        \A n \in DOMAIN resp.results : resp.results[n].step = n

\* C23: the breaker of a tool is open once the failures recorded for it have
\* reached the circuit_breaker_threshold of that tool's own schema, so tools
\* registered with different thresholds open after different numbers of
\* failures.
C23_PerToolThreshold ==
    \A t \in DOMAIN states \cap RegisteredTools :
        states[t].failure_count >= tools[t].circuit_breaker_threshold => states[t].is_open

\* C24: an open breaker stays open until more than the cooldown has passed
\* since the tool's last recorded failure: whenever the open flag of a tool is
\* cleared, that time has passed and the failure count is reset to zero;
\* until then every query finds the breaker open.
C24_OpenUntilCooldown ==
    [][\A t \in DOMAIN states :
          /\ OpenNow(t) => is_open(states, t, now)
          /\ (states[t].is_open /\ ~states'[t].is_open) =>
                /\ now - states[t].last_failure_time > timeout
                /\ states'[t].failure_count = 0
      ]_vars

\* an execution of tool t ends with a success in this step
SucceedsNow(t) ==
    \E c \in DOMAIN task : task[c].tool = t /\ Answered(c) /\ last_outcome'[c] = "ok"

\* an execution of tool t ends with its retries exhausted in this step
ExhaustsNow(t) ==
    \E c \in DOMAIN task :
        task[c].tool = t /\ Answered(c) /\ last_outcome'[c] # "ok" /\ task'[c].pc = "done"

\* a call for tool t finds the breaker open with the cooldown over in this step
CooldownResetNow(t) ==
    /\ t \in DOMAIN states /\ states[t].is_open /\ cooled_down(states[t], now)
    /\ \E c \in DOMAIN task : Entered(c) /\ task'[c].tool = t

\* C25: a successful execution of a tool sets that tool's failure count to
\* zero, a retry-exhausted execution adds one to it, a cooldown reset zeroes
\* it, and nothing else changes it: the count is the number of exhausted
\* executions since the last success or reset, and no tool's count changes
\* through another tool's executions.
C25_SuccessResets ==
    [][\A t \in RegisteredTools :
          FailureCount(states', t) =
              IF SucceedsNow(t) THEN 0
              ELSE IF ExhaustsNow(t) THEN FailureCount(states, t) + 1
              ELSE IF CooldownResetNow(t) THEN 0
              ELSE FailureCount(states, t)
      ]_vars

C25_Witness ==
    /\ \E c \in DOMAIN task :
          task[c].tool = "t1" /\ task[c].pc = "done" /\ task[c].ret = Response("success", "")
    /\ "t1" \in DOMAIN states /\ "t2" \in DOMAIN states
    /\ states["t1"].failure_count = 0 /\ states["t1"].last_failure_time # 0
    /\ states["t2"].failure_count = 2

\* C26: in every reachable breaker state the open flag of a tool is set
\* exactly when its failure count is at least the breaker's threshold.
C26_FlagIffCount ==
    \A t \in DOMAIN states :
        states[t].is_open <=> states[t].failure_count >= threshold

\* a breaker that was open and has been closed again by the cooldown
C26_Witness ==
    /\ "t2" \in DOMAIN states
    /\ ~states["t2"].is_open /\ states["t2"].failure_count = 0
    /\ states["t2"].last_failure_time # 0
    /\ now - states["t2"].last_failure_time > timeout
    /\ \A c \in DOMAIN task : task[c].pc = "handler" /\ task[c].tool = "t2"

\* the storage manager's update by client c has just been accepted by the cache tier
CacheTierUpdated(c) ==
    /\ store_cfg.component = "manager"
    /\ sreq'[c] # sreq[c]
    /\ sreq'[c].op = "update" /\ sreq'[c].fast = "ok"

\* C27: an update accepted by a store tier appends the list fields of the
\* update to the lists the tier had stored, the same way in every tier.
C27_TierUpdateAppends ==
    [][\A c \in Clients :
          CacheTierUpdated(c) =>
              \E u \in SmUpdates :
                  redis'.ctx.lists = apply_updates(redis_get(redis, now), u).lists]_vars

\* request c's write of its in-memory copy has just been accepted by Redis
StoreWriteAccepted(c) ==
    /\ sreq[c].pc = "read" /\ sreq'[c].pc = "done"
    /\ sreq'[c].fast = "ok"
    /\ redis_get(redis, now) # None

\* every entry of list old is still there, in place, in list new
KeepsEntries(old, new) ==
    Len(old) <= Len(new) /\ SubSeq(new, 1, Len(old)) = old

\* C28: when requests on one context overlap, no accepted write erases an
\* entry another request has stored: every list of the stored context is
\* carried over by the write.
C28_NoLostUpdate ==
    [][\A c \in DOMAIN sreq :
          StoreWriteAccepted(c) =>
              \A f \in ListFields :
                  KeepsEntries(redis.ctx.lists[f], redis'.ctx.lists[f])]_vars

\* the handler of call c's tool has just been invoked: a first attempt or a retry
Invoked(c) == task[c].pc # "handler" /\ task'[c].pc = "handler"

\* C29: while a tool's breaker is open its handler is never invoked, neither
\* by a new execute call nor by a retry of a call that was already in flight
\* when the breaker opened.
C29_NoInvocationWhileOpen ==
    [][\A c \in DOMAIN task : Invoked(c) => ~OpenNow(task'[c].tool)]_vars

\* C30: a workflow response says completed only if every step of the workflow
\* ran and succeeded: steps_completed and the number of results both equal
\* steps_total, in every mode.
C30_CompletedMeansAll ==
    (wf_pc = "returned" /\ resp.status = "completed") =>
        /\ resp.steps_completed = resp.steps_total
        /\ Len(resp.results) = resp.steps_total

====
